---- MODULE Spec2Model ----
(***************************************************************************)
(* Model of src/app/api/mcp-chat/route.ts: the POST handler of the chat    *)
(* route, its three module-level singletons (openai, mcpClient,            *)
(* toolsCache) and the turns that run the handler, one asynchronous task   *)
(* per turn that suspends at each await.                                    *)
(*                                                                         *)
(* Texts are sequences of tokens.  A token is a piece of text that the     *)
(* code's string operations never split: "{" and "}" are the brace         *)
(* characters, " " is one space, "p" and "d" are prose words without       *)
(* braces, and the pair tokens are JSON members written out, each with     *)
(* the comma that separates it from its neighbour:                         *)
(*   "Ut"  "useTool": true         "Uf"  "useTool": false                  *)
(*   "Na"  "toolName": "a"         "Nb"  "toolName": "b"                   *)
(*   "k"   "name": "Jane"          "I1"  "id": "42"                        *)
(*   "A"   "toolArguments":        (the object that follows is its value)  *)
(***************************************************************************)
EXTENDS Integers, Sequences, FiniteSets, TLC

\* ------------------------------------------------------------- bounds ----
NTurns == 2         \* turns (calls of POST) in one process
MaxTextLen == 4     \* tokens in a completion text drawn freely
MaxProse == 1       \* prose tokens on each side of an embedded intent object
MaxItems == 2       \* items in a tool result's content
MaxResultLen == 3   \* tokens in a tool result's content, all items together

Turns == 1..NTurns

\* ------------------------------------------------------ token helpers ----
RECURSIVE SeqsOfLen(_, _)
SeqsOfLen(S, n) ==
  IF n = 0 THEN {<<>>} ELSE {Append(s, x) : s \in SeqsOfLen(S, n - 1), x \in S}
SeqsUpTo(S, n) == UNION {SeqsOfLen(S, k) : k \in 0..n}

PairTokens == {"Ut", "Uf", "Na", "Nb", "k", "I1"}
UseToolTokens == {"Ut", "Uf"}

\* ------------------------------------------------ JSON.parse (library) ----
Undef == <<>>
EmptyObj == [useTool |-> Undef, toolName |-> Undef, toolArguments |-> Undef,
             name |-> Undef, id |-> Undef]
ParseFail == [ok |-> FALSE, next |-> 0, val |-> EmptyObj]

\* The member a pair token writes, stored into the object being built; a
\* repeated key keeps its last value, as JSON.parse does.
PutMember(obj, tok) ==
  CASE tok = "Ut" -> [obj EXCEPT !.useTool = <<"true">>]
    [] tok = "Uf" -> [obj EXCEPT !.useTool = <<"false">>]
    [] tok = "Na" -> [obj EXCEPT !.toolName = <<"a">>]
    [] tok = "Nb" -> [obj EXCEPT !.toolName = <<"b">>]
    [] tok = "k"  -> [obj EXCEPT !.name = <<"Jane">>]
    [] tok = "I1" -> [obj EXCEPT !.id = <<"42">>]

RECURSIVE SkipWs(_, _)
SkipWs(s, i) == IF i <= Len(s) /\ s[i] = " " THEN SkipWs(s, i + 1) ELSE i

RECURSIVE ParseObject(_, _)
RECURSIVE ParseMembers(_, _, _)
ParseObject(s, i) ==
  IF i <= Len(s) /\ s[i] = "{"
  THEN ParseMembers(s, SkipWs(s, i + 1), EmptyObj)
  ELSE ParseFail

ParseMembers(s, i, acc) ==
  IF i > Len(s) THEN ParseFail
  ELSE IF s[i] = "}" THEN [ok |-> TRUE, next |-> i + 1, val |-> acc]
  ELSE IF s[i] \in PairTokens
       THEN ParseMembers(s, SkipWs(s, i + 1), PutMember(acc, s[i]))
  ELSE IF s[i] = "A"
       THEN LET r == ParseObject(s, SkipWs(s, i + 1))
            IN  IF r.ok
                THEN ParseMembers(s, SkipWs(s, r.next),
                                  [acc EXCEPT !.toolArguments = <<r.val>>])
                ELSE ParseFail
  ELSE ParseFail

\* JSON.parse(s): ok is FALSE where JSON.parse throws a SyntaxError.
JSONParse(s) ==
  LET r == ParseObject(s, SkipWs(s, 1))
  IN  IF r.ok /\ SkipWs(s, r.next) > Len(s)
      THEN [ok |-> TRUE, val |-> r.val]
      ELSE [ok |-> FALSE, val |-> EmptyObj]

\* --------------------------------------------------- intent extraction ----
Positions(s, S) == {i \in 1..Len(s) : s[i] \in S}
Min(S) == CHOOSE x \in S : \A y \in S : x <= y
Max(S) == CHOOSE x \in S : \A y \in S : x >= y

NoMatch == [found |-> FALSE, text |-> <<>>]

\* aiResponse.match(/\{[\s\S]*"useTool"[\s\S]*\}/): the leftmost match starts at
\* the first "{" and, both stars being greedy, ends at the last "}", provided a
\* "useTool" lies between them.
RegexMatch(s) ==
  LET opens  == Positions(s, {"{"})
      closes == Positions(s, {"}"})
  IN  IF opens = {} \/ closes = {} THEN NoMatch
      ELSE LET i == Min(opens)
               k == Max(closes)
           IN  IF \E j \in Positions(s, UseToolTokens) : i < j /\ j < k
               THEN [found |-> TRUE, text |-> SubSeq(s, i, k)]
               ELSE NoMatch

\* A slip of line 175: the test left out.
UseToolIgnored(obj) == TRUE

\* if (toolData.useTool): the truthiness of the parsed field.
UseToolTruthy(obj) == obj.useTool = <<"true">>

NoIntent == [toolToUse |-> Undef, toolArguments |-> Undef]

\* Lines 167-182: toolToUse and toolArguments after the try block.
ExtractIntent(aiResponse) ==
  LET jsonMatch == RegexMatch(aiResponse)
  IN  IF ~jsonMatch.found THEN NoIntent
      ELSE LET toolData == JSONParse(jsonMatch.text)
           IN  IF toolData.ok /\ UseToolTruthy(toolData.val)
               THEN [toolToUse |-> toolData.val.toolName,
                     toolArguments |-> toolData.val.toolArguments]
               ELSE NoIntent

\* ----------------------------------------------- tool-result normalization ----
TemplatePrefix == "Contact created successfully with ID: "
GenericSuccess == <<"Operation completed successfully.">>
Fallback == <<"I'm sorry, I couldn't generate a response.">>

\* A slip of line 211: the filter left out.
AllItems(content) == content

\* toolResp.content.filter(item => item.type === 'text')
TextItems(content) == SelectSeq(content, LAMBDA item : item.type = "text")

\* Array.prototype.join(' ') over the items' texts.
RECURSIVE JoinSp(_)
JoinSp(items) ==
  IF Len(items) = 0 THEN <<>>
  ELSE IF Len(items) = 1 THEN items[1].text
  ELSE items[1].text \o <<" ">> \o JoinSp(Tail(items))

StartsWithBrace(s) == Len(s) > 0 /\ s[1] = "{"
EndsWithBrace(s) == Len(s) > 0 /\ s[Len(s)] = "}"

\* `${parsedContent.id}`: an absent field prints as "undefined".
IdString(obj) == IF obj.id = Undef THEN "undefined" ELSE obj.id[1]

\* A slip of lines 216-222 and 234-236: a failed parse answered with the
\* generic message instead of the text.
NormalizeGenericOnParseFailure(toolResp) ==
  IF toolResp.kind = "content"
  THEN LET textContent == JoinSp(TextItems(toolResp.content))
       IN  IF StartsWithBrace(textContent) /\ EndsWithBrace(textContent)
           THEN IF JSONParse(textContent).ok
                THEN <<TemplatePrefix, IdString(JSONParse(textContent).val)>>
                ELSE GenericSuccess
           ELSE textContent
  ELSE GenericSuccess

\* Lines 209-252: the content of the second message.
NormalizeToolResult(toolResp) ==
  IF toolResp.kind = "content"
  THEN LET textContent == JoinSp(TextItems(toolResp.content))
           parsedContent ==
             IF StartsWithBrace(textContent) /\ EndsWithBrace(textContent)
             THEN JSONParse(textContent)
             ELSE [ok |-> FALSE, val |-> EmptyObj]
       IN  IF parsedContent.ok
           THEN <<TemplatePrefix, IdString(parsedContent.val)>>
           ELSE textContent
  ELSE GenericSuccess

\* ------------------------------------------------------------ responses ----
Msg(content) == [role |-> "assistant", content |-> content]
NoResp == [status |-> 0, body |-> [none |-> TRUE]]
\* NextResponse.json(formattedResponse)
Success(msgs) == [status |-> 200, body |-> [newMessages |-> msgs]]
\* NextResponse.json({ error: String(error) }, { status: 500 })
Failure(err) == [status |-> 500, body |-> [error |-> err]]

ErrBadJson == <<"SyntaxError: request body is not JSON">>
ErrMissingApiKey == <<"Error: Missing OPENAI_API_KEY in environment variables">>
ErrMissingCreds == <<"Error: Missing INTEGRATION_APP_TOKEN or INTEGRATION_KEY in .env">>
ErrConnect == <<"Error: connect rejected">>
ErrListTools == <<"Error: listTools rejected">>
ErrNoTools == <<"Error: No tools available from MCP server">>
ErrHistory == <<"TypeError: history.map is not a function">>
ErrCompletion == <<"Error: chat.completions.create rejected">>
ErrNoChoice == <<"TypeError: Cannot read properties of undefined (reading 'message')">>
ErrToolNotFound(name) == <<"Error: Tool '", name, "' not found">>
ErrCallTool == <<"Error: callTool rejected">>
ErrEmptyTool == <<"Error: Empty response from tool">>

\* ---------------------------------------------------------------- state ----
VARIABLES
  env,              \* process.env: which of the three credentials are present
  openai,           \* line 21: FALSE is null
  mcpClient,        \* line 19: 0 is null, n > 0 is the Client turn n created
  toolsCache,       \* line 20: the names of the cached tools, in order
  pc,               \* per turn: the await the handler is suspended at
  req,              \* per turn: what req.json() resolved to
  aiResponse,       \* per turn: line 164
  intent,           \* per turn: toolToUse and toolArguments, lines 167-182
  toolResp,         \* per turn: what callTool resolved to, line 195
  resp,             \* per turn: the response returned
  events,           \* per turn: the outcome of each awaited call, in order
  completionCalls,  \* per turn: requests sent to the completion service
  callToolSent,     \* per turn: tool-call requests sent, with their connection
  seen,             \* per turn: toolsCache as read at line 113 and at line 189,
                    \* and the connection it was discovered from
  connects,         \* connections established with the tool host
  listToolsCalls,   \* discovery requests issued
  openaiCreated,    \* OpenAI clients constructed
  cacheFrom,        \* the Client whose discovery filled toolsCache, 0 if none
  overlap,          \* some turn began while another was in progress
  raced             \* a turn passed the !mcpClient check while another was connecting

vars == <<env, openai, mcpClient, toolsCache, pc, req, aiResponse, intent, toolResp,
          resp, events, completionCalls, callToolSent, seen, connects,
          listToolsCalls, openaiCreated, cacheFrom, overlap, raced>>

\* The module reads process.env (lines 29, 52, 53) and never writes it: the
\* credentials present are chosen once, with the process.
Envs == [apiKey : BOOLEAN, token : BOOLEAN, key : BOOLEAN]

Init ==
  /\ env \in Envs
  /\ openai = FALSE
  /\ mcpClient = 0
  /\ toolsCache = <<>>
  /\ pc = [t \in Turns |-> "idle"]
  /\ req = [t \in Turns |-> "none"]
  /\ aiResponse = [t \in Turns |-> <<>>]
  /\ intent = [t \in Turns |-> NoIntent]
  /\ toolResp = [t \in Turns |-> [kind |-> "none", content |-> <<>>, isError |-> FALSE]]
  /\ resp = [t \in Turns |-> NoResp]
  /\ events = [t \in Turns |-> <<>>]
  /\ completionCalls = [t \in Turns |-> 0]
  /\ callToolSent = [t \in Turns |-> <<>>]
  /\ seen = [t \in Turns |-> [check |-> <<>>, lookup |-> <<>>, from |-> <<>>]]
  /\ cacheFrom = 0
  /\ connects = 0
  /\ listToolsCalls = 0
  /\ openaiCreated = 0
  /\ overlap = FALSE
  /\ raced = FALSE

InProgress(t) == pc[t] \notin {"idle", "done"}

\* POST is called and suspends at `await req.json()`, line 25.
Begin(t) ==
  /\ pc[t] = "idle"
  /\ pc' = [pc EXCEPT ![t] = "json"]
  /\ overlap' = (overlap \/ \E u \in Turns \ {t} : InProgress(u))
  /\ UNCHANGED <<env, openai, mcpClient, toolsCache, req, aiResponse, intent, toolResp,
                 resp, events, completionCalls, callToolSent, seen, connects,
                 listToolsCalls, openaiCreated, cacheFrom, raced>>

\* ------------------------------------------------- steps of the handler ----
\* A slip of line 28: the client is constructed on every turn.
OpenAIAlwaysConstructed(cur) == TRUE

\* Line 28: if (!openai)
NeedsOpenAI(cur) == ~cur

\* A slip of line 54: the two tests joined by && instead of ||.
MissingBothIntegrationCreds(e) == ~e.token /\ ~e.key

\* Line 54: !integrationAppToken || !integrationKey
MissingIntegrationCreds(e) == ~e.token \/ ~e.key

\* A slip of line 92: the assignment left out.
McpClientNotStored(cur, client) == cur

\* Line 92: mcpClient = client
McpClientAfterConnect(cur, client) == client

\* A variant of lines 106-109: the catch block resets mcpClient before rethrowing.
McpClientResetOnListFailure(cur) == 0

\* Lines 106-109: the catch block rethrows and leaves mcpClient as line 92 set it.
McpClientAfterListFailure(cur) == cur

\* Lines 100-105: toolsCache after listTools resolved.
CacheAfterList(cur, listResp) ==
  IF listResp.kind = "tools" THEN listResp.tools ELSE cur

\* Lines 92-101: the Client toolsCache was discovered from, after the discovery
\* that a turn sent over the Client it had just stored resolved.
CacheSourceAfterList(cur, listResp, client) ==
  IF listResp.kind = "tools" THEN client ELSE cur

\* Line 164: completion.choices[0].message.content || "I'm sorry, ..."
\* (<<>> is a content that is null or the empty string).
AiResponseOf(content) == IF content = <<>> THEN Fallback ELSE content

\* A slip of lines 189-192: the lookup's result is not tested.
FindToolUnchecked(cache, name) == TRUE

\* Line 189: toolsCache.find(t => t.name === toolToUse)
FindTool(cache, name) == \E i \in 1..Len(cache) : cache[i] = name

\* A variant of lines 153-164: an error of the completion call is replaced by the
\* fallback text and the turn answers with it.
CompletionErrorFallback(err) == Success(<<Msg(Fallback)>>)

\* Lines 266-269: the catch block's response to an error of the completion call.
CompletionErrorResponse(err) == Failure(err)

\* A slip of line 113: the test left out.
CatalogNeverEmpty(cache) == FALSE

\* Line 113: !toolsCache.length
CatalogEmpty(cache) == Len(cache) = 0

Finish(t, r) ==
  /\ pc' = [pc EXCEPT ![t] = "done"]
  /\ resp' = [resp EXCEPT ![t] = r]

\* Lines 112-153 with toolsCache = cache: the empty-catalog check, the prompt, the
\* history and the request to the completion service.
ToCompletion(t, cache) ==
  /\ seen' = [seen EXCEPT ![t].check = <<cache>>]
  /\ IF CatalogEmpty(cache)
     THEN Finish(t, Failure(ErrNoTools)) /\ UNCHANGED completionCalls
     ELSE IF req'[t] = "nohistory"
     THEN Finish(t, Failure(ErrHistory)) /\ UNCHANGED completionCalls
     ELSE /\ pc' = [pc EXCEPT ![t] = "completing"]
          /\ completionCalls' = [completionCalls EXCEPT ![t] = @ + 1]
          /\ UNCHANGED resp

JsonOutcomes == {"throw", "ok", "nohistory"}

\* req.json() settles; lines 25-81 or, with mcpClient set, lines 25-37 and 112-153.
JsonReturns(t, outcomes) ==
  /\ pc[t] = "json"
  /\ \E o \in outcomes :
       /\ events' = [events EXCEPT ![t] = Append(@, <<"json", o>>)]
       /\ req' = [req EXCEPT ![t] = o]
       /\ UNCHANGED <<env, mcpClient, toolsCache, aiResponse, intent, toolResp,
                      callToolSent, connects, listToolsCalls, cacheFrom,
                      overlap>>
       /\ IF o = "throw"
          THEN /\ Finish(t, Failure(ErrBadJson))
               /\ UNCHANGED <<openai, openaiCreated, completionCalls, seen, raced>>
          ELSE IF NeedsOpenAI(openai) /\ ~env.apiKey
          THEN /\ Finish(t, Failure(ErrMissingApiKey))
               /\ UNCHANGED <<openai, openaiCreated, completionCalls, seen, raced>>
          ELSE /\ openai' = TRUE
               /\ openaiCreated' = IF NeedsOpenAI(openai) THEN openaiCreated + 1
                                                        ELSE openaiCreated
               /\ IF mcpClient = 0
                  THEN IF MissingIntegrationCreds(env)
                       THEN /\ Finish(t, Failure(ErrMissingCreds))
                            /\ UNCHANGED <<completionCalls, seen, raced>>
                       ELSE /\ pc' = [pc EXCEPT ![t] = "connecting"]
                            /\ raced' = (raced \/ \E u \in Turns \ {t} : pc[u] = "connecting")
                            /\ UNCHANGED <<resp, completionCalls, seen>>
                  ELSE /\ ToCompletion(t, toolsCache)
                       /\ UNCHANGED raced

ConnectOutcomes == {"ok", "throw"}

\* client.connect(transport) settles; lines 81-98.
ConnectReturns(t, outcomes) ==
  /\ pc[t] = "connecting"
  /\ \E o \in outcomes :
       /\ events' = [events EXCEPT ![t] = Append(@, <<"connect", o>>)]
       /\ UNCHANGED <<env, openai, toolsCache, req, aiResponse, intent, toolResp,
                      completionCalls, callToolSent, seen, openaiCreated, cacheFrom,
                      overlap, raced>>
       /\ IF o = "throw"
          THEN /\ Finish(t, Failure(ErrConnect))
               /\ UNCHANGED <<mcpClient, connects, listToolsCalls>>
          ELSE /\ connects' = connects + 1
               /\ mcpClient' = McpClientAfterConnect(mcpClient, t)
               /\ listToolsCalls' = listToolsCalls + 1
               /\ pc' = [pc EXCEPT ![t] = "listing"]
               /\ UNCHANGED resp

\* A Tool is modelled by its name, the only field the handler's control flow reads
\* (line 189); description and inputSchema only reach the prompt.
ToolLists == {<<>>, <<"a">>}
ListOutcomes ==
  {[kind |-> k, tools |-> <<>>] : k \in {"throw", "malformed"}}
    \cup {[kind |-> "tools", tools |-> l] : l \in ToolLists}

\* mcpClient.listTools({}) settles; lines 98-153.
ListToolsReturns(t, outcomes) ==
  /\ pc[t] = "listing"
  /\ \E o \in outcomes :
       /\ events' = [events EXCEPT ![t] = Append(@, <<"list", o.kind>>)]
       /\ UNCHANGED <<env, openai, req, aiResponse, intent, toolResp, callToolSent,
                      connects, listToolsCalls, openaiCreated, overlap, raced>>
       /\ IF o.kind = "throw"
          THEN /\ Finish(t, Failure(ErrListTools))
               /\ mcpClient' = McpClientAfterListFailure(mcpClient)
               /\ UNCHANGED <<toolsCache, cacheFrom, completionCalls, seen>>
          ELSE /\ toolsCache' = CacheAfterList(toolsCache, o)
               /\ cacheFrom' = CacheSourceAfterList(cacheFrom, o, t)
               /\ ToCompletion(t, toolsCache')
               /\ UNCHANGED mcpClient

\* openai.chat.completions.create(...) settles; lines 153-198 or 153-192 or
\* 153-185 and 255-265.
CompletionReturns(t, outcomes) ==
  /\ pc[t] = "completing"
  /\ \E o \in outcomes :
       /\ events' = [events EXCEPT ![t] = Append(@, <<"completion", o.kind>>)]
       /\ UNCHANGED <<env, openai, mcpClient, toolsCache, req, toolResp, completionCalls,
                      connects, listToolsCalls, openaiCreated, cacheFrom,
                      overlap, raced>>
       /\ IF o.kind = "throw"
          THEN /\ Finish(t, CompletionErrorResponse(ErrCompletion))
               /\ UNCHANGED <<aiResponse, intent, callToolSent, seen>>
          ELSE IF o.kind = "nochoice"
          THEN /\ Finish(t, CompletionErrorResponse(ErrNoChoice))
               /\ UNCHANGED <<aiResponse, intent, callToolSent, seen>>
          ELSE LET ai == AiResponseOf(o.text)
                   it == ExtractIntent(ai)
               IN  /\ aiResponse' = [aiResponse EXCEPT ![t] = ai]
                   /\ intent' = [intent EXCEPT ![t] = it]
                   /\ seen' = [seen EXCEPT
                                  ![t].lookup = IF it.toolToUse = Undef THEN <<>>
                                                ELSE <<toolsCache>>,
                                  ![t].from = IF it.toolToUse = Undef THEN <<>>
                                              ELSE <<cacheFrom>>]
                   /\ IF it.toolToUse = Undef
                      THEN /\ Finish(t, Success(<<Msg(ai)>>))
                           /\ UNCHANGED callToolSent
                      ELSE IF ~FindTool(toolsCache, it.toolToUse[1])
                      THEN /\ Finish(t, Failure(ErrToolNotFound(it.toolToUse[1])))
                           /\ UNCHANGED callToolSent
                      ELSE /\ callToolSent' = [callToolSent EXCEPT ![t] =
                                  Append(@, [conn |-> mcpClient, name |-> it.toolToUse[1],
                                             arguments |-> it.toolArguments])]
                           /\ pc' = [pc EXCEPT ![t] = "calling"]
                           /\ UNCHANGED resp

\* A variant of lines 195-204: a rejected call is sent once more.
CallToolReturnsRetrying(t, outcomes) ==
  /\ pc[t] = "calling"
  /\ \E o \in outcomes :
       /\ events' = [events EXCEPT ![t] = Append(@, <<"tool", o.kind>>)]
       /\ toolResp' = [toolResp EXCEPT ![t] = o]
       /\ UNCHANGED <<env, openai, mcpClient, toolsCache, req, aiResponse, intent,
                      completionCalls, seen, connects, listToolsCalls,
                      openaiCreated, cacheFrom, overlap, raced>>
       /\ IF o.kind = "throw" /\ Len(callToolSent[t]) = 1
          THEN /\ callToolSent' = [callToolSent EXCEPT ![t] = Append(@, @[1])]
               /\ UNCHANGED <<pc, resp>>
          ELSE /\ UNCHANGED callToolSent
               /\ IF o.kind = "throw" THEN Finish(t, Failure(ErrCallTool))
                  ELSE IF o.kind = "empty" THEN Finish(t, Failure(ErrEmptyTool))
                  ELSE Finish(t, Success(<<Msg(aiResponse[t]),
                                           Msg(NormalizeToolResult(o))>>))

\* mcpClient.callTool(...) settles; lines 195-254.
CallToolReturns(t, outcomes) ==
  /\ pc[t] = "calling"
  /\ \E o \in outcomes :
       /\ events' = [events EXCEPT ![t] = Append(@, <<"tool", o.kind>>)]
       /\ toolResp' = [toolResp EXCEPT ![t] = o]
       /\ UNCHANGED <<env, openai, mcpClient, toolsCache, req, aiResponse, intent,
                      completionCalls, callToolSent, seen, connects, listToolsCalls,
                      openaiCreated, cacheFrom, overlap, raced>>
       /\ IF o.kind = "throw" THEN Finish(t, Failure(ErrCallTool))
          ELSE IF o.kind = "empty" THEN Finish(t, Failure(ErrEmptyTool))
          ELSE Finish(t, Success(<<Msg(aiResponse[t]), Msg(NormalizeToolResult(o))>>))

\* ------------------------------------------------------------- inputs ----
Completion(kind, text) == [kind |-> kind, text |-> text]
ToolResult(kind, content) == [kind |-> kind, content |-> content, isError |-> FALSE]
\* A result by which the host reports that the tool failed: isError is true and
\* the content is the error text.  The handler never reads isError.
ErrorResult(content) == [kind |-> "content", content |-> content, isError |-> TRUE]
Item(type, text) == [type |-> type, text |-> text]

IntentA == <<"{", "Ut", "Na", "A", "{", "k", "}", "}">>
IntentA0 == <<"{", "Ut", "Na", "A", "{", "}", "}">>
IntentB == <<"{", "Ut", "Nb", "}">>

\* What the completion service answers in the specification of concurrent turns.
SampleTexts ==
  { <<>>, <<"p">>, <<"p">> \o IntentA \o <<"p">>, IntentB }
SampleCompletions ==
  {Completion("throw", <<>>), Completion("nochoice", <<>>)}
    \cup {Completion("content", x) : x \in SampleTexts}

\* What the tool host answers to a call in the specification of concurrent turns.
SampleResults ==
  { ToolResult("throw", <<>>), ToolResult("empty", <<>>), ToolResult("opaque", <<>>),
    ToolResult("content", <<Item("text", <<"{", "I1", "}">>)>>),
    ToolResult("content", <<Item("text", <<"d">>)>>),
    ErrorResult(<<Item("text", <<"d">>)>>) }

Next ==
  \E t \in Turns :
    \/ Begin(t)
    \/ JsonReturns(t, JsonOutcomes)
    \/ ConnectReturns(t, ConnectOutcomes)
    \/ ListToolsReturns(t, ListOutcomes)
    \/ CompletionReturns(t, SampleCompletions)
    \/ CallToolReturns(t, SampleResults)

Spec == Init /\ [][Next]_vars

\* ------------------------------------ one turn, inputs drawn exhaustively ----
TextTokens == {"p", "{", "}", "Ut", "Uf", "Na", "Nb", "A"}
ProseTokens == {"p", "{", "}"}
IntentObjects == {IntentA, IntentA0, IntentB}

\* What may follow an intent object as a second JSON-like span.
LaterSpans == IntentObjects \cup {<<"{", "Uf", "}">>, <<"{", "}">>}

\* Every text of at most MaxTextLen tokens, every intent object between two
\* pieces of prose of at most MaxProse tokens each, and every intent object
\* followed, after at most MaxProse words, by a second span.
AllTexts ==
  SeqsUpTo(TextTokens, MaxTextLen)
    \cup {pre \o obj \o post : pre \in SeqsUpTo(ProseTokens, MaxProse),
                               obj \in IntentObjects,
                               post \in SeqsUpTo(ProseTokens, MaxProse)}
    \cup {obj \o sep \o later : obj \in IntentObjects,
                                 sep \in SeqsUpTo({"p"}, MaxProse),
                                 later \in LaterSpans}
AllCompletions ==
  {Completion("throw", <<>>), Completion("nochoice", <<>>)}
    \cup {Completion("content", x) : x \in AllTexts}

ResultTokens == {"{", "}", "I1", "d"}
ItemTypes == {"text", "image"}

\* Every content of at most n items whose texts have at most len tokens in all.
RECURSIVE Contents(_, _)
Contents(n, len) ==
  IF n = 0 THEN {<<>>}
  ELSE {<<>>} \cup
       UNION {{<<Item(ty, x)>> \o rest : ty \in ItemTypes, rest \in Contents(n - 1, len - Len(x))}
                : x \in SeqsUpTo(ResultTokens, len)}
AllResults ==
  {ToolResult("throw", <<>>), ToolResult("empty", <<>>), ToolResult("opaque", <<>>)}
    \cup {ToolResult("content", c) : c \in Contents(MaxItems, MaxResultLen)}

\* One turn; the completion service may answer any text.
NextText ==
  \/ Begin(1)
  \/ JsonReturns(1, JsonOutcomes)
  \/ ConnectReturns(1, ConnectOutcomes)
  \/ ListToolsReturns(1, ListOutcomes)
  \/ CompletionReturns(1, AllCompletions)
  \/ CallToolReturns(1, SampleResults)

SpecText == Init /\ [][NextText]_vars

\* One turn; the tool host may answer any result.
NextResult ==
  \/ Begin(1)
  \/ JsonReturns(1, JsonOutcomes)
  \/ ConnectReturns(1, ConnectOutcomes)
  \/ ListToolsReturns(1, ListOutcomes)
  \/ CompletionReturns(1, SampleCompletions)
  \/ CallToolReturns(1, AllResults)

SpecResult == Init /\ [][NextResult]_vars

\* ------------------- concurrent turns, all credentials and a healthy host ----
AllCredentials == [apiKey |-> TRUE, token |-> TRUE, key |-> TRUE]
InitHealthy == Init /\ env = AllCredentials

\* The host always connects, always answers discovery with a non-empty tool
\* list, and answers every call with a result.
HealthyConnectOutcomes == {"ok"}
HealthyListOutcomes == {[kind |-> "tools", tools |-> l] : l \in ToolLists \ {<<>>}}
HealthyResults == {r \in SampleResults : r.kind \in {"opaque", "content"} /\ ~r.isError}

NextHealthy ==
  \E t \in Turns :
    \/ Begin(t)
    \/ JsonReturns(t, JsonOutcomes)
    \/ ConnectReturns(t, HealthyConnectOutcomes)
    \/ ListToolsReturns(t, HealthyListOutcomes)
    \/ CompletionReturns(t, SampleCompletions)
    \/ CallToolReturns(t, HealthyResults)

SpecHealthy == InitHealthy /\ [][NextHealthy]_vars

\* ------------------------------------------------------------- claims ----
Done(t) == pc[t] = "done"
Last(s) == s[Len(s)]
Has(s, x) == \E i \in 1..Len(s) : s[i] = x
Parsed(t) == Len(events[t]) > 0 /\ events[t][1] # <<"json", "throw">>

\* C1: when every turn finishes before the next begins, the discovery request
\* (listTools) is issued at most once in the process, whatever the turns' outcomes.
C1_DiscoveryAtMostOnce == ~overlap => listToolsCalls <= 1

\* Two turns have run one after the other, the first failed at discovery, and
\* one discovery request was issued.
C1_Witness ==
  /\ ~overlap
  /\ listToolsCalls = 1
  /\ \E t \in Turns : \E u \in Turns \ {t} :
       /\ Done(t) /\ Has(events[t], <<"list", "throw">>)
       /\ Done(u) /\ Parsed(u)

\* C2 as amended: a missing credential fails the turn with the configuration error
\* of that credential; the tool-host session and the catalog cache are then unset,
\* and the completion client is unset when its own credential is the missing one
\* but constructed and kept when only a tool-host credential is missing.
C2_MissingCredential ==
  \A t \in Turns :
    Done(t) /\ Parsed(t) =>
      /\ ~env.apiKey =>
           /\ resp[t] = Failure(ErrMissingApiKey)
           /\ ~openai /\ mcpClient = 0 /\ toolsCache = <<>>
      /\ env.apiKey /\ (~env.token \/ ~env.key) =>
           /\ resp[t] = Failure(ErrMissingCreds)
           /\ openai /\ mcpClient = 0 /\ toolsCache = <<>>

\* Two turns have failed on a missing tool-host credential: the second ran the
\* tool-host initialization again, with the completion client kept from the first.
C2_Witness ==
  /\ openai /\ openaiCreated = 1
  /\ \E t \in Turns : \E u \in Turns \ {t} :
       /\ resp[t] = Failure(ErrMissingCreds)
       /\ resp[u] = Failure(ErrMissingCreds)

\* C2 as stated: after a turn that failed on a missing credential every shared
\* singleton, the completion client included, is unset.
C2_AllSingletonsUnset ==
  \A t \in Turns :
    Done(t) /\ Parsed(t) /\ (~env.apiKey \/ ~env.token \/ ~env.key) =>
      /\ resp[t] \in {Failure(ErrMissingApiKey), Failure(ErrMissingCreds)}
      /\ ~openai /\ mcpClient = 0 /\ toolsCache = <<>>

\* C3 as stated: a turn whose completion call errored or returned no choice ends
\* with the success envelope carrying the fallback apology.
C3_CompletionFailureFallsBack ==
  \A t \in Turns :
    Done(t) /\ Len(events[t]) > 0
      /\ Last(events[t]) \in {<<"completion", "throw">>, <<"completion", "nochoice">>}
      => resp[t] = Success(<<Msg(Fallback)>>)

\* C4: a turn whose extracted intent names a tool that the cached catalog does not
\* hold fails with the tool-not-found error and sends no tool-call request.
C4_UnknownToolNotCalled ==
  \A t \in Turns :
    /\ intent[t].toolToUse # Undef
    /\ seen[t].lookup # <<>>
    /\ ~Has(seen[t].lookup[1], intent[t].toolToUse[1])
    => /\ Done(t)
       /\ resp[t] = Failure(ErrToolNotFound(intent[t].toolToUse[1]))
       /\ callToolSent[t] = <<>>

\* A turn asked for tool "b" while the catalog held only "a".
C4_Witness ==
  \E t \in Turns :
    /\ intent[t].toolToUse = <<"b">>
    /\ seen[t].lookup = << <<"a">> >>
    /\ resp[t] = Failure(ErrToolNotFound("b"))

\* The completion service answered turn t with a choice; aiResponse[t] is then the
\* completion text of line 164.
Completed(t) == Has(events[t], <<"completion", "content">>)

\* Some span of s from a "{" to a "}" is a well-formed JSON object whose useTool
\* field is true.
HasIntentSpan(s) ==
  \E i \in 1..Len(s) : \E j \in i..Len(s) :
    /\ s[i] = "{" /\ s[j] = "}"
    /\ LET o == JSONParse(SubSeq(s, i, j))
       IN  o.ok /\ o.val.useTool = <<"true">>

\* C5: for every completion text without a well-formed JSON object span whose
\* useTool is truthy, no intent is extracted, no tool-call request is sent and the
\* turn answers with exactly one assistant message, the completion text.
C5_NoSpanNoIntent ==
  \A t \in Turns :
    Completed(t) /\ ~HasIntentSpan(aiResponse[t]) =>
      /\ intent[t] = NoIntent
      /\ callToolSent[t] = <<>>
      /\ Done(t)
      /\ resp[t] = Success(<<Msg(aiResponse[t])>>)

\* The completion text was an object whose useTool is false: the pattern of
\* line 172 matched it, and the turn answered with the text alone.
C5_Witness ==
  \E t \in Turns :
    /\ aiResponse[t] = <<"{", "Uf", "Na", "}">>
    /\ resp[t] = Success(<<Msg(aiResponse[t])>>)

ArgsOf(obj) == IF obj = IntentA THEN [EmptyObj EXCEPT !.name = <<"Jane">>] ELSE EmptyObj

\* C6 as stated: a completion text that embeds one intent object with useTool
\* true, toolName "a" and toolArguments A yields the intent ("a", A) whatever
\* prose surrounds the object, braces in the prose included.
C6_IntentRegardlessOfProse ==
  \A t \in Turns :
    \A obj \in {IntentA, IntentA0} :
      \A pre \in SeqsUpTo(ProseTokens, MaxProse) :
        \A post \in SeqsUpTo(ProseTokens, MaxProse) :
          Completed(t) /\ aiResponse[t] = pre \o obj \o post =>
            intent[t] = [toolToUse |-> <<"a">>, toolArguments |-> <<ArgsOf(obj)>>]

\* The text-typed items of a content, in order, with one space between neighbours.
HasTextItem(c) == \E i \in 1..Len(c) : c[i].type = "text"
RECURSIVE SpaceJoined(_)
SpaceJoined(c) ==
  IF c = <<>> THEN <<>>
  ELSE IF c[1].type # "text" THEN SpaceJoined(Tail(c))
  ELSE IF HasTextItem(Tail(c)) THEN c[1].text \o <<" ">> \o SpaceJoined(Tail(c))
  ELSE c[1].text

BracketDelimited(s) == Len(s) > 0 /\ s[1] = "{" /\ s[Len(s)] = "}"

\* C7: after a tool call that returned a content sequence the turn answers
\* [assistant: completion text, assistant: m]; with x the text-typed items joined
\* by single spaces, m is the templated confirmation with the id, and not x itself,
\* when x is a bracket-delimited parseable object with an id field, and m is x
\* when x is not bracket-delimited.
C7_ToolResultNormalized ==
  \A t \in Turns :
    Done(t) /\ toolResp[t].kind = "content" =>
      LET x == SpaceJoined(toolResp[t].content)
          o == JSONParse(x)
      IN  /\ resp[t].status = 200
          /\ DOMAIN resp[t].body = {"newMessages"}
          /\ Len(resp[t].body.newMessages) = 2
          /\ resp[t].body.newMessages[1] = Msg(aiResponse[t])
          /\ resp[t].body.newMessages[2].role = "assistant"
          /\ LET m == resp[t].body.newMessages[2].content
             IN  /\ BracketDelimited(x) /\ o.ok /\ o.val.id # Undef =>
                      m = <<TemplatePrefix, o.val.id[1]>> /\ m # x
                 /\ ~BracketDelimited(x) => m = x

\* A content of two items, one of them not text, whose text is an object with
\* id "42", was answered with the confirmation for 42.
C7_Witness ==
  \E t \in Turns :
    /\ Done(t) /\ toolResp[t].kind = "content"
    /\ Len(toolResp[t].content) = 2
    /\ ~HasTextItem(<<toolResp[t].content[1]>>)
    /\ resp[t] = Success(<<Msg(aiResponse[t]), Msg(<<TemplatePrefix, "42">>)>>)

IsSuccess(t) ==
  /\ resp[t].status = 200
  /\ DOMAIN resp[t].body = {"newMessages"}
  /\ Len(resp[t].body.newMessages) = (IF callToolSent[t] = <<>> THEN 1 ELSE 2)
  /\ resp[t].body.newMessages[1] = Msg(aiResponse[t])
  /\ \A i \in 1..Len(resp[t].body.newMessages) :
       resp[t].body.newMessages[i].role = "assistant"

IsFailure(t) ==
  /\ resp[t].status = 500
  /\ DOMAIN resp[t].body = {"error"}

\* A step of turn t failed: an awaited call rejected or came back empty, a
\* credential is missing, the catalog was empty at line 113, or the tool named by
\* the intent was not in the catalog at line 189.
FailingStep(t) ==
  \/ \E e \in {<<"json", "throw">>, <<"connect", "throw">>, <<"list", "throw">>,
               <<"completion", "throw">>, <<"completion", "nochoice">>,
               <<"tool", "throw">>, <<"tool", "empty">>} : Has(events[t], e)
  \/ Parsed(t) /\ (~env.apiKey \/ ~env.token \/ ~env.key)
  \/ seen[t].check = << <<>> >>
  \/ /\ intent[t].toolToUse # Undef
     /\ seen[t].lookup # <<>>
     /\ ~Has(seen[t].lookup[1], intent[t].toolToUse[1])

\* C8: a turn has a response exactly when it has ended; the response is either the
\* success envelope with the whole message sequence or the failure envelope with
\* status 500, never both; and every failing step yields the failure envelope.
C8_OneEnvelope ==
  \A t \in Turns :
    /\ Done(t) <=> resp[t] # NoResp
    /\ Done(t) => (IsSuccess(t) /\ ~FailingStep(t)) \/ IsFailure(t)
    /\ FailingStep(t) => Done(t) /\ IsFailure(t)

\* One turn failed on a rejected completion call while another succeeded with two
\* messages.
C8_Witness ==
  \E t \in Turns : \E u \in Turns \ {t} :
    /\ resp[t] = Failure(ErrCompletion)
    /\ Done(u) /\ IsSuccess(u) /\ Len(resp[u].body.newMessages) = 2

\* C9 as stated: after a first turn whose discovery request threw, with no other
\* turn begun, the tool-host session and the catalog cache are unset.
C9_NoPartialState ==
  \A t \in Turns :
    resp[t] = Failure(ErrListTools) /\ (\A u \in Turns \ {t} : pc[u] = "idle") =>
      mcpClient = 0 /\ toolsCache = <<>>

\* C10: two first turns can both pass the !mcpClient test before either stores its
\* connection, and then two connections are established and two discovery requests
\* issued; a second connection comes about in no other way, and every connection
\* established issues one discovery request.
C10_DuplicateConnectionsByRace ==
  /\ connects >= 2 => raced
  /\ listToolsCalls = connects

\* Two connections have been established and two discovery requests issued.
C10_Witness == raced /\ connects = 2 /\ listToolsCalls = 2


\* The place of an awaited call in the handler's fixed order.
Rank(e) ==
  CASE e[1] = "json" -> 1
    [] e[1] = "connect" -> 2
    [] e[1] = "list" -> 3
    [] e[1] = "completion" -> 4
    [] e[1] = "tool" -> 5

FailedCalls ==
  {<<"json", "throw">>, <<"connect", "throw">>, <<"list", "throw">>,
   <<"completion", "throw">>, <<"completion", "nochoice">>,
   <<"tool", "throw">>, <<"tool", "empty">>}

\* C11: a turn sends at most one completion request and at most one tool-call
\* request; its awaited calls settle in the order request, connect, discovery,
\* completion, tool call, each at most once; a failed call is the turn's last; the
\* completion request follows the catalog check, and a tool-call request is sent
\* only after the turn's completion call has returned.
C11_OnePassInOrder ==
  \A t \in Turns :
    /\ completionCalls[t] <= 1
    /\ Len(callToolSent[t]) <= 1
    /\ \A i \in 1..Len(events[t]) : \A j \in 1..Len(events[t]) :
         i < j => /\ Rank(events[t][i]) < Rank(events[t][j])
                  /\ events[t][i] \notin FailedCalls
    /\ Len(events[t]) > 0 /\ Last(events[t]) \in FailedCalls => Done(t)
    /\ completionCalls[t] = 1 => seen[t].check # <<>>
    /\ Has(events[t], <<"completion", "content">>) => completionCalls[t] = 1
    /\ callToolSent[t] # <<>> => Has(events[t], <<"completion", "content">>)
    /\ Len(events[t]) > 0 /\ Last(events[t])[1] = "tool" => callToolSent[t] # <<>>

\* A turn's tool call was rejected: the turn ended there, with one completion
\* request and one tool-call request sent.
C11_Witness ==
  \E t \in Turns :
    /\ Done(t) /\ Last(events[t]) = <<"tool", "throw">>
    /\ completionCalls[t] = 1 /\ Len(callToolSent[t]) = 1

\* C12: a turn sends the completion request only if the catalog it read at line 113
\* was not empty; a turn that read an empty catalog there fails with the
\* no-tools-available error and sends neither a completion request nor a tool call.
C12_CatalogBeforeCompletion ==
  \A t \in Turns :
    /\ completionCalls[t] > 0 => seen[t].check # <<>> /\ seen[t].check[1] # <<>>
    /\ seen[t].check = << <<>> >> =>
         /\ Done(t) /\ resp[t] = Failure(ErrNoTools)
         /\ completionCalls[t] = 0 /\ callToolSent[t] = <<>>

\* A turn whose own discovery returned an empty tool list failed with the
\* no-tools-available error.
C12_Witness ==
  \E t \in Turns :
    /\ Done(t) /\ Last(events[t]) = <<"list", "tools">>
    /\ seen[t].check = << <<>> >>
    /\ resp[t] = Failure(ErrNoTools)

\* C13 as stated: a turn whose tool call was rejected, came back empty, or came
\* back as a result by which the host reports an error, ends with the failure
\* envelope.
C13_HostErrorFailsTurn ==
  \A t \in Turns :
    Done(t) /\ Len(events[t]) > 0
      /\ (Last(events[t]) \in {<<"tool", "throw">>, <<"tool", "empty">>}
            \/ toolResp[t].isError)
      => IsFailure(t)

\* C14 as stated: a turn whose discovery response had no tools field fails with an
\* error that is not the no-tools-available error.
C14_MalformedDiscoveryIsProtocolError ==
  \A t \in Turns :
    Has(events[t], <<"list", "malformed">>) =>
      Done(t) /\ IsFailure(t) /\ resp[t] # Failure(ErrNoTools)

\* C15: after a tool call that returned a content sequence whose text-typed items,
\* joined by single spaces, are a bracket-delimited text that parses to an object
\* without an id field, the second message of the answer is that text itself.
C15_NoIdGivesRawText ==
  \A t \in Turns :
    Done(t) /\ toolResp[t].kind = "content" =>
      LET x == SpaceJoined(toolResp[t].content)
          o == JSONParse(x)
      IN  BracketDelimited(x) /\ o.ok /\ o.val.id = Undef =>
            resp[t] = Success(<<Msg(aiResponse[t]), Msg(x)>>)

ParseFails(x) == BracketDelimited(x) /\ ~JSONParse(x).ok

\* C16 as stated: a bracket-delimited text that fails to parse, like a result
\* without a content sequence, is answered with the generic success message.
C16_ParseFailureGivesGeneric ==
  \A t \in Turns :
    /\ Done(t)
    /\ \/ toolResp[t].kind = "opaque"
       \/ toolResp[t].kind = "content" /\ ParseFails(SpaceJoined(toolResp[t].content))
    => resp[t] = Success(<<Msg(aiResponse[t]), Msg(GenericSuccess)>>)

\* C16 amended: a bracket-delimited text that fails to parse is answered with
\* the text itself, a result without a content sequence with the generic success
\* message; in both cases the turn succeeds with two messages.
C16_ParseFailureGivesText ==
  \A t \in Turns :
    Done(t) =>
      /\ toolResp[t].kind = "content" /\ ParseFails(SpaceJoined(toolResp[t].content)) =>
           resp[t] = Success(<<Msg(aiResponse[t]),
                               Msg(SpaceJoined(toolResp[t].content))>>)
      /\ toolResp[t].kind = "opaque" =>
           resp[t] = Success(<<Msg(aiResponse[t]), Msg(GenericSuccess)>>)

\* A turn whose tool answered the unparseable text "{ d}" in two items succeeded
\* with that text.
C16_Witness ==
  \E t \in Turns :
    /\ Done(t) /\ toolResp[t].kind = "content"
    /\ Len(toolResp[t].content) = 2
    /\ SpaceJoined(toolResp[t].content) = <<"{", " ", "d", "}">>
    /\ ParseFails(SpaceJoined(toolResp[t].content))
    /\ resp[t] = Success(<<Msg(aiResponse[t]), Msg(<<"{", " ", "d", "}">>)>>)

\* The tool name and arguments an intent object states.
IntentOf(obj) ==
  IF obj = IntentB THEN [toolToUse |-> <<"b">>, toolArguments |-> Undef]
  ELSE [toolToUse |-> <<"a">>, toolArguments |-> <<ArgsOf(obj)>>]

\* C17: a completion text that begins with a well-formed object whose useTool is
\* true, followed after some words by a second JSON-like span, yields the tool
\* name and arguments of the first object, whatever the second span is.
C17_FirstSpanDecides ==
  \A t \in Turns :
    \A obj \in IntentObjects :
      \A sep \in SeqsUpTo({"p"}, MaxProse) :
        \A later \in LaterSpans :
          Completed(t) /\ aiResponse[t] = obj \o sep \o later =>
            intent[t] = IntentOf(obj)

\* C20: under any interleaving of the turns at most one completion client is
\* ever constructed, and the singleton is set exactly from that construction on:
\* it is never constructed again and never cleared.
C20_CompletionClientOnce ==
  /\ openaiCreated <= 1
  /\ openai <=> openaiCreated = 1

\* Two overlapping turns both passed the check of line 28 and one client was
\* constructed.
C20_Witness ==
  /\ overlap /\ env.apiKey
  /\ \A t \in Turns : Parsed(t)
  /\ openai /\ openaiCreated = 1

\* The turn found mcpClient set at line 37: it read the catalog at line 113
\* without having connected.
SawSession(t) == seen[t].check # <<>> /\ ~Has(events[t], <<"connect", "ok">>)

\* C18: with all credentials and a host that always connects, always answers
\* discovery with a non-empty tool list and never fails, no turn fails with the
\* no-tools-available error, and a turn that finds the session set finds the
\* catalog populated.
C18_HealthyHostNeverNoTools ==
  \A t \in Turns :
    /\ resp[t] # Failure(ErrNoTools)
    /\ SawSession(t) => seen[t].check[1] # <<>>

\* C19: whenever a turn has sent a tool-call request, the connection it sent it
\* over is the connection from which the catalog it looked the tool up in was
\* discovered.
C19_CallOverCatalogConnection ==
  \A t \in Turns :
    \A i \in 1..Len(callToolSent[t]) :
      seen[t].from = <<callToolSent[t][i].conn>>
====
